---- MODULE Spec2Model ----
(***************************************************************************)
(* TrackSwift (src/TrackSwift.py, src/App_utils.py): a Streamlit script    *)
(* over one SQLite file with the tables users, shipments and orders.       *)
(*                                                                         *)
(* A step of the model is one run of the script for one browser session:   *)
(* init_db(), the session-state initialisation, handle_login() and, when   *)
(* the session is logged in, the logout button or the selected page.       *)
(* Three further specifications take the statements of a run one by one:   *)
(* SpecAddOne and SpecAddShared for page Add Shipment on the cached        *)
(* connection, SpecInitDb for init_db() run by several runs at once.       *)
(*                                                                         *)
(* Encodings.  A tracking id is the n-th distinct token drawn from uuid4:  *)
(* tokens are only compared for equality, so a draw is either the next     *)
(* unused token or one of the tokens already stored (a collision).  Python *)
(* None is NoneName for a name and NoneId for an id.  created_date is not  *)
(* modelled (no guard reads it).  st.session_state is a function whose     *)
(* domain is the set of keys present.                                      *)
(***************************************************************************)
EXTENDS Integers, Sequences, FiniteSets, TLC

VARIABLES
    users,        \* table users: rows [id, username, password]
    shipments,    \* table shipments
    orders,       \* table orders
    session,      \* session -> st.session_state
    collisions,   \* how many uuid4 draws hit a stored tracking id so far
    failed,       \* history: failed login submissions per session (saturating)
    created,      \* history: what each successful Add Shipment was given and reported
    touched,      \* history: tracking ids a status UPDATE was executed for
    last,         \* history: the last script run, its inputs and what it rendered
    conn,         \* get_conn(): the open transaction of the one cached connection
    pc,           \* per script run: the statement it stands at
    loc,          \* per script run: its local variables
    widgets,      \* per session: the values the Add Shipment form holds
    rerun,        \* per session: st.rerun() was called, the next run is that rerun
    tally         \* history: counters of what the runs did

stmtvars == <<conn, pc, loc, widgets, rerun, tally>>

vars == <<users, shipments, orders, session, collisions, failed, created, touched, last,
          conn, pc, loc, widgets, rerun, tally>>

----------------------------------------------------------------------------
(* Bounds of the model *)

NumSessions == 1
MaxCollisions == 1
MaxAdded == 1
MaxFailures == 2
NumProcs == 2
MaxOps == 2
MaxFaults == 1

Sessions == 1..NumSessions

\* the script runs (one thread per browser session) of the statement-level
\* specifications
Procs == 1..NumProcs

(* Widget inputs *)
UsernameInputs == {"", "admin", "user", "bob"}
PasswordInputs == {"", "admin", "user"}
TrackingInputs == {0, 1, 9}

----------------------------------------------------------------------------
(* Values *)

NoneName == "<None>"
NoneId == 0

status_options == <<"Pending", "In Transit", "Delivered">>
Status == {status_options[i] : i \in 1..Len(status_options)}

hash_password(password) == <<"sha256", password>>

default_users ==
    << [username |-> "admin", password |-> hash_password("admin")],
       [username |-> "user",  password |-> hash_password("user")] >>

sample_data ==
    << [owner |-> "admin", sender_name |-> "John Doe", receiver_name |-> "Jane Smith",
        origin |-> "New York", destination |-> "Los Angeles", status |-> "Pending"],
       [owner |-> "admin", sender_name |-> "Alice Johnson", receiver_name |-> "Bob Wilson",
        origin |-> "Chicago", destination |-> "Miami", status |-> "In Transit"],
       [owner |-> "admin", sender_name |-> "Charlie Brown", receiver_name |-> "Diana Prince",
        origin |-> "Seattle", destination |-> "Boston", status |-> "Delivered"],
       [owner |-> "admin", sender_name |-> "Eve Davis", receiver_name |-> "Frank Miller",
        origin |-> "Denver", destination |-> "Atlanta", status |-> "Pending"],
       [owner |-> "admin", sender_name |-> "Grace Lee", receiver_name |-> "Henry Taylor",
        origin |-> "Phoenix", destination |-> "Detroit", status |-> "In Transit"],
       [owner |-> "user", sender_name |-> "User  Sender1", receiver_name |-> "User  Receiver1",
        origin |-> "Dallas", destination |-> "Portland", status |-> "Delivered"],
       [owner |-> "user", sender_name |-> "User  Sender2", receiver_name |-> "User  Receiver2",
        origin |-> "Austin", destination |-> "Nashville", status |-> "Pending"],
       [owner |-> "user", sender_name |-> "User  Sender3", receiver_name |-> "User  Receiver3",
        origin |-> "Houston", destination |-> "Memphis", status |-> "In Transit"] >>

sample_orders ==
    << [items |-> "Electronics", quantity |-> 5,  total_cost |-> 500],
       [items |-> "Clothing",    quantity |-> 10, total_cost |-> 200],
       [items |-> "Books",       quantity |-> 20, total_cost |-> 100],
       [items |-> "Furniture",   quantity |-> 2,  total_cost |-> 800],
       [items |-> "Groceries",   quantity |-> 50, total_cost |-> 150],
       [items |-> "Tools",       quantity |-> 3,  total_cost |-> 300],
       [items |-> "Toys",        quantity |-> 15, total_cost |-> 75],
       [items |-> "Appliances",  quantity |-> 1,  total_cost |-> 1000] >>

----------------------------------------------------------------------------
(* The store *)

MaxOf(S) == CHOOSE x \in S : \A y \in S : y <= x

\* INTEGER PRIMARY KEY AUTOINCREMENT; no row is ever deleted
NextId(table) == IF table = {} THEN 1 ELSE MaxOf({r.id : r \in table}) + 1

\* the store as one value
DB == [users |-> users, shipments |-> shipments, orders |-> orders,
       collisions |-> collisions]

\* INSERT OR IGNORE INTO users: username is UNIQUE
InsertOrIgnoreUser(us, u) ==
    IF \E r \in us : r.username = u.username
    THEN us
    ELSE us \cup {[id |-> NextId(us), username |-> u.username, password |-> u.password]}

\* SELECT id FROM users WHERE username = ?  (fetchone()[0], or None)
UserIdOf(us, name) ==
    IF \E r \in us : r.username = name
    THEN (CHOOSE r \in us : r.username = name).id
    ELSE NoneId

\* mutant: the column is declared without UNIQUE
NoUniqueConstraint(ships, tid) == FALSE

\* tracking_id TEXT UNIQUE NOT NULL: would this INSERT raise IntegrityError?
UniqueViolation(ships, tid) == \E r \in ships : r.tracking_id = tid

\* str(uuid.uuid4()).replace('-', '')[:8].upper(): the next unused token, or
\* (while the model's collision budget lasts) a token already stored
uuid_draws(d) ==
    {NextId({[id |-> r.tracking_id] : r \in d.shipments})}
    \cup (IF d.collisions < MaxCollisions
          THEN {r.tracking_id : r \in d.shipments} ELSE {})

\* mutant: origin and destination bound to each other's column
InsertSwapped(d, user_id, f, tid) ==
    LET sid == NextId(d.shipments) IN
    [d EXCEPT
       !.shipments = @ \cup {[id |-> sid, user_id |-> user_id,
                              sender_name |-> f.sender_name,
                              receiver_name |-> f.receiver_name,
                              origin |-> f.destination, destination |-> f.origin,
                              status |-> f.status, tracking_id |-> tid]},
       !.orders = @ \cup {[id |-> NextId(d.orders), shipment_id |-> sid,
                           items |-> f.items, quantity |-> f.quantity,
                           total_cost |-> f.total_cost]}]

\* INSERT INTO shipments ... ; shipment_id = c.lastrowid ; INSERT INTO orders ...
InsertShipmentAndOrder(d, user_id, f, tid) ==
    LET sid == NextId(d.shipments) IN
    [d EXCEPT
       !.shipments = @ \cup {[id |-> sid, user_id |-> user_id,
                              sender_name |-> f.sender_name,
                              receiver_name |-> f.receiver_name,
                              origin |-> f.origin, destination |-> f.destination,
                              status |-> f.status, tracking_id |-> tid]},
       !.orders = @ \cup {[id |-> NextId(d.orders), shipment_id |-> sid,
                           items |-> f.items, quantity |-> f.quantity,
                           total_cost |-> f.total_cost]}]

\* one iteration of init_db's sample loop; IntegrityError: pass (the row is skipped)
InsertSample(d, i, tid) ==
    IF UniqueViolation(d.shipments, tid)
    THEN [d EXCEPT !.collisions = @ + 1]
    ELSE LET sd == sample_data[i]
             so == sample_orders[((i - 1) % Len(sample_orders)) + 1]
         IN InsertShipmentAndOrder(d, UserIdOf(d.users, sd.owner),
                [sender_name |-> sd.sender_name, receiver_name |-> sd.receiver_name,
                 origin |-> sd.origin, destination |-> sd.destination,
                 status |-> sd.status, items |-> so.items, quantity |-> so.quantity,
                 total_cost |-> so.total_cost], tid)

\* the stores the sample loop can leave, from sample i on
RECURSIVE SeedSamples(_, _)
SeedSamples(d, i) ==
    IF i > Len(sample_data)
    THEN {d}
    ELSE UNION {SeedSamples(InsertSample(d, i, tid), i + 1) : tid \in uuid_draws(d)}

\* mutant: the samples are inserted without the row-count check
SeedAlways(d) == TRUE

\* "SELECT COUNT(*) FROM shipments"; if shipment_count == 0
SeedNeeded(d) == Cardinality(d.shipments) = 0

RECURSIVE InsertDefaultUsers(_, _)
InsertDefaultUsers(us, i) ==
    IF i > Len(default_users) THEN us
    ELSE InsertDefaultUsers(InsertOrIgnoreUser(us, default_users[i]), i + 1)

\* init_db(): the set of stores it can leave (CREATE TABLE IF NOT EXISTS keeps
\* existing tables as they are)
init_db(d) ==
    LET d1 == [d EXCEPT !.users = InsertDefaultUsers(@, 1)] IN
    IF UserIdOf(d1.users, "admin") = NoneId \/ UserIdOf(d1.users, "user") = NoneId
    THEN {d1}
    ELSE IF SeedNeeded(d1) THEN SeedSamples(d1, 1) ELSE {d1}

----------------------------------------------------------------------------
(* The session *)

Get(ss, key, default) == IF key \in DOMAIN ss THEN ss[key] ELSE default

NoKeys == [k \in {} |-> FALSE]

\* if 'logged_in' not in st.session_state: ...
SessionInit(ss) ==
    IF "logged_in" \in DOMAIN ss
    THEN ss
    ELSE [k \in DOMAIN ss \cup {"logged_in", "username", "user_id", "is_admin"} |->
            CASE k = "logged_in" -> FALSE
              [] k = "username" -> NoneName
              [] k = "user_id" -> NoneId
              [] k = "is_admin" -> FALSE
              [] OTHER -> ss[k]]

\* mutant: the query without its password condition
SelectUserByName(us, username, password_hash) ==
    {r \in us : r.username = username}

\* SELECT id, username FROM users WHERE username = ? AND password = ?
SelectUser(us, username, password_hash) ==
    {r \in us : r.username = username /\ r.password = password_hash}

\* mutant: the gate lets every run through
handle_login_open(ss, us, username, password, submit) ==
    [ok |-> TRUE, ss |-> ss, msg |-> "", form |-> FALSE]

\* handle_login(): ok is its return value True (the script goes on); on a
\* successful login st.rerun() ends the run, so True is returned only to a
\* session that is logged in already
handle_login(ss, us, username, password, submit) ==
    IF Get(ss, "logged_in", FALSE)
    THEN [ok |-> TRUE, ss |-> ss, msg |-> "", form |-> FALSE]
    ELSE IF ~submit
    THEN [ok |-> FALSE, ss |-> ss, msg |-> "", form |-> TRUE]
    ELSE IF username = "" \/ password = ""
    THEN [ok |-> FALSE, ss |-> ss, msg |-> "Enter username and password.", form |-> TRUE]
    ELSE LET user == SelectUser(us, username, hash_password(password)) IN
         IF user # {}
         THEN LET r == CHOOSE r \in user : TRUE IN
              [ok |-> FALSE,
               ss |-> [k \in DOMAIN ss \cup {"logged_in", "username", "user_id", "is_admin"} |->
                         CASE k = "logged_in" -> TRUE
                           [] k = "username" -> r.username
                           [] k = "user_id" -> r.id
                           [] k = "is_admin" -> (username = "admin")
                           [] OTHER -> ss[k]],
               msg |-> "Welcome", form |-> TRUE]
         ELSE [ok |-> FALSE, ss |-> ss, msg |-> "Invalid credentials.", form |-> TRUE]

\* mutant: logout only clears the flag
logout_flag_only(ss) == [ss EXCEPT !["logged_in"] = FALSE]

\* logout(): del st.session_state[key] for every key
logout(ss) == NoKeys

----------------------------------------------------------------------------
(* Script runs *)

\* the Add Shipment form as first drawn: empty text inputs, the selectbox on
\* its first option, the number inputs on their minimum
EmptyForm ==
    [sender_name |-> "", receiver_name |-> "", origin |-> "",
     destination |-> "", status |-> "Pending", items |-> "",
     quantity |-> 1, total_cost |-> 0]

NoRun ==
    [s |-> 0, page |-> "", msg |-> "", username |-> "", password |-> "",
     submit |-> FALSE, tid |-> 0, new_status |-> "", user_filter |-> "",
     status_filter |-> "", shown |-> {}, read |-> {}, repo |-> {},
     collided |-> FALSE, total |-> 0]

Store(d) ==
    /\ users' = d.users
    /\ shipments' = d.shipments
    /\ orders' = d.orders
    /\ collisions' = d.collisions

\* the cached connection with no transaction open
NoTxn == [ships |-> {}, ords |-> {}, rowid |-> NoneId]

\* the locals of a run before the try block of Add Shipment
NoLocals ==
    [f |-> EmptyForm, submitted |-> FALSE, tracking_id |-> NoneId,
     shipment_id |-> NoneId, failed_at |-> "", shipment_count |-> 0]

NoTally == [ops |-> 0, submissions |-> 0, nsucc |-> 0, nerr |-> 0, faults |-> 0]

\* no script run is inside a statement sequence
Quiescent ==
    /\ conn = NoTxn
    /\ pc = [p \in Procs |-> "idle"]
    /\ loc = [p \in Procs |-> NoLocals]
    /\ widgets = [p \in Procs |-> EmptyForm]
    /\ rerun = [p \in Procs |-> FALSE]
    /\ tally = NoTally

Init ==
    /\ users = {}
    /\ shipments = {}
    /\ orders = {}
    /\ session = [s \in Sessions |-> NoKeys]
    /\ collisions = 0
    /\ failed = [s \in Sessions |-> 0]
    /\ created = {}
    /\ touched = {}
    /\ last = NoRun
    /\ Quiescent

\* a run that stops at handle_login: the login form, with or without a submission
LoginPage(s, username, password, submit) ==
    \E d \in init_db(DB) :
      LET h == handle_login(SessionInit(session[s]), d.users, username, password, submit) IN
      /\ ~h.ok
      /\ Store(d)
      /\ session' = [session EXCEPT ![s] = h.ss]
      /\ failed' = [failed EXCEPT ![s] =
                      IF submit /\ ~Get(h.ss, "logged_in", FALSE) /\ @ < MaxFailures
                      THEN @ + 1 ELSE @]
      /\ last' = [NoRun EXCEPT !.s = s, !.page = "login", !.msg = h.msg,
                               !.username = username, !.password = password,
                               !.submit = submit]
      /\ UNCHANGED <<created, touched>>

\* what a logged-in run starts with: init_db(), the session initialisation and
\* handle_login() returning True
Enter(s, d) == handle_login(SessionInit(session[s]), d.users, "", "", FALSE)

\* the sidebar's Logout button; st.rerun() ends the run before any page is drawn
LogoutButton(s) ==
    \E d \in init_db(DB) :
      LET h == Enter(s, d) IN
      /\ h.ok
      /\ Store(d)
      /\ session' = [session EXCEPT ![s] = logout(h.ss)]
      /\ last' = [NoRun EXCEPT !.s = s, !.page = "logout"]
      /\ UNCHANGED <<failed, created, touched>>

\* get_all_shipments_df(conn, include_orders): SELECT * FROM shipments [LEFT JOIN orders]
get_all_shipments_df(d) == d.shipments

\* mutant: the query without its WHERE clause
get_user_shipments_unfiltered(d, user_id) == d.shipments

\* get_user_shipments_df(conn, user_id): ... WHERE s.user_id = ?
get_user_shipments_df(d, user_id) == {r \in d.shipments : r.user_id = user_id}

Ids(rows) == {r.id : r \in rows}

\* page "Dashboard": the status metrics over every shipment
Dashboard(s) ==
    \E d \in init_db(DB) :
      LET h == Enter(s, d)
          df_shipments == get_all_shipments_df(d)
      IN
      /\ h.ok
      /\ Store(d)
      /\ session' = [session EXCEPT ![s] = h.ss]
      /\ last' = [NoRun EXCEPT !.s = s, !.page = "dashboard",
                     !.msg = IF df_shipments = {} THEN "No shipments data available."
                             ELSE "metrics",
                     !.read = Ids(df_shipments), !.repo = {"list"},
                     !.total = Cardinality(df_shipments)]
      /\ UNCHANGED <<failed, created, touched>>

\* all([sender_name, receiver_name, origin, destination, items])
AllFilled(f) ==
    /\ f.sender_name # ""
    /\ f.receiver_name # ""
    /\ f.origin # ""
    /\ f.destination # ""
    /\ f.items # ""

SetKey(ss, key, value) ==
    [k \in DOMAIN ss \cup {key} |-> IF k = key THEN value ELSE ss[k]]

\* if st.session_state.get('form_submitted', False) or submitted
FormTaken(ss, submitted) == Get(ss, "form_submitted", FALSE) \/ submitted

\* page "Add Shipment"
AddShipment(s, f, submitted) ==
    \E d \in init_db(DB) :
      LET h == Enter(s, d)
          taken == FormTaken(h.ss, submitted)
          ss1 == IF taken THEN SetKey(h.ss, "form_submitted", TRUE) ELSE h.ss
          run == [NoRun EXCEPT !.s = s, !.page = "add", !.submit = submitted]
      IN
      /\ h.ok
      /\ session' = [session EXCEPT ![s] = ss1]
      /\ UNCHANGED <<failed, touched>>
      /\ IF ~taken
         THEN /\ Store(d)
              /\ last' = run
              /\ UNCHANGED created
         ELSE IF ~AllFilled(f)
         THEN /\ Store(d)
              /\ last' = [run EXCEPT !.msg = "Please fill in all required fields."]
              /\ UNCHANGED created
         ELSE \E tracking_id \in uuid_draws(d) :
                IF UniqueViolation(d.shipments, tracking_id)
                THEN \* IntegrityError: st.error, conn.rollback()
                     /\ Store([d EXCEPT !.collisions = @ + 1])
                     /\ last' = [run EXCEPT !.msg = "Error adding shipment",
                                            !.tid = tracking_id,
                                            !.repo = {"insert"}, !.collided = TRUE]
                     /\ UNCHANGED created
                ELSE \* conn.commit(), st.success, st.rerun(): line 214 is never reached
                     /\ Cardinality(created) < MaxAdded
                     /\ Store(InsertShipmentAndOrder(d, Get(ss1, "user_id", NoneId), f,
                                                     tracking_id))
                     /\ last' = [run EXCEPT !.msg = "Shipment added successfully",
                                            !.tid = tracking_id, !.repo = {"insert"}]
                     /\ created' = created \cup
                          {[tracking_id |-> tracking_id, form |-> f,
                            user_id |-> Get(ss1, "user_id", NoneId)]}

\* SELECT s.*, o.* FROM shipments s LEFT JOIN orders o ... WHERE s.tracking_id = ?
FindByTrackingId(ships, tracking_id) == {r \in ships : r.tracking_id = tracking_id}

\* mutant: the UPDATE without its WHERE clause
UpdateStatusEveryRow(ships, new_status, tracking_id) ==
    {[r EXCEPT !.status = new_status] : r \in ships}

\* UPDATE shipments SET status = ? WHERE tracking_id = ?
UpdateStatus(ships, new_status, tracking_id) ==
    {IF r.tracking_id = tracking_id THEN [r EXCEPT !.status = new_status] ELSE r :
       r \in ships}

\* is the UPDATE executed?  st.button("Update Status") and new_status != current_status
UpdateWanted(row, click, new_status) == click /\ new_status # row.status

\* mutant: the status widgets are drawn for every logged-in session
MayUpdateLoggedIn(ss) == Get(ss, "logged_in", FALSE)

\* if st.session_state.is_admin: the status widgets are drawn for an admin only
MayUpdate(ss) == Get(ss, "is_admin", FALSE)

\* the admin's status update of the Track page as an operation on the table
update_status(ships, tracking_id, new_status) ==
    LET found == FindByTrackingId(ships, tracking_id) IN
    IF found # {} /\ UpdateWanted(CHOOSE r \in found : TRUE, TRUE, new_status)
    THEN UpdateStatus(ships, new_status, tracking_id)
    ELSE ships

\* what the page shows when the UPDATE is not executed: the elif calls st.button
\* with the same label a second time, which Streamlit rejects as a duplicate widget
\* (caught by the page's except Exception); the build decides
NoUpdateMsgs(click) ==
    {"Error tracking shipment", IF click THEN "No change needed." ELSE "Shipment Found"}

\* page "Track Shipment"; 0 is the empty text box
TrackShipment(s, tracking_id, click, new_status) ==
    \E d \in init_db(DB) :
      LET h == Enter(s, d)
          found == FindByTrackingId(d.shipments, tracking_id)
          run == [NoRun EXCEPT !.s = s, !.page = "track", !.tid = tracking_id,
                               !.submit = click,
                               !.new_status = IF click THEN new_status ELSE ""]
      IN
      /\ h.ok
      /\ session' = [session EXCEPT ![s] = h.ss]
      /\ UNCHANGED <<failed, created>>
      /\ IF tracking_id = 0
         THEN /\ Store(d)
              /\ last' = [run EXCEPT !.submit = FALSE, !.new_status = ""]
              /\ UNCHANGED touched
         ELSE IF found = {}
         THEN /\ Store(d)
              /\ last' = [run EXCEPT !.msg = "Shipment not found", !.repo = {"lookup"},
                                     !.submit = FALSE, !.new_status = ""]
              /\ UNCHANGED touched
         ELSE LET row == CHOOSE r \in found : TRUE
                  seen == [run EXCEPT !.shown = {row.id}, !.read = {row.id},
                                      !.repo = {"lookup"}]
              IN
              IF ~MayUpdate(h.ss)
              THEN /\ Store(d)
                   /\ last' = [seen EXCEPT !.msg = "Shipment Found"]
                   /\ UNCHANGED touched
              ELSE IF UpdateWanted(row, click, new_status)
              THEN /\ Store([d EXCEPT !.shipments =
                                 update_status(@, tracking_id, new_status)])
                   /\ last' = [seen EXCEPT !.msg = "Status updated",
                                           !.repo = {"lookup", "update"}]
                   /\ touched' = touched \cup {tracking_id}
              ELSE /\ Store(d)
                   /\ \E m \in NoUpdateMsgs(click) : last' = [seen EXCEPT !.msg = m]
                   /\ UNCHANGED touched

\* the options of "Filter by User"
UserFilterOptions(ss) ==
    IF Get(ss, "is_admin", FALSE)
    THEN {"All", "Admin", "User "}
    ELSE {"All", Get(ss, "username", NoneName)}

\* the options of "Filter by Status"
StatusFilterOptions(df) == {"All"} \cup {r.status : r \in df}

\* user_id_map.get(user_filter, st.session_state.user_id)
UserIdFilter(ss, user_filter) ==
    CASE user_filter = "Admin" -> 1
      [] user_filter = "User " -> 2
      [] OTHER -> Get(ss, "user_id", NoneId)

\* filtered_df of page "View Orders"
FilterOrders(df, ss, status_filter, user_filter) ==
    LET by_status == IF status_filter # "All"
                     THEN {r \in df : r.status = status_filter} ELSE df
    IN IF user_filter # "All" /\ Get(ss, "is_admin", FALSE)
       THEN {r \in by_status : r.user_id = UserIdFilter(ss, user_filter)}
       ELSE IF user_filter # "All"
       THEN {r \in by_status : r.user_id = Get(ss, "user_id", NoneId)}
       ELSE by_status

\* page "View Orders"
ViewOrders(s, status_filter, user_filter) ==
    \E d \in init_db(DB) :
      LET h == Enter(s, d)
          df_joined == get_all_shipments_df(d)
          run == [NoRun EXCEPT !.s = s, !.page = "orders", !.repo = {"list"},
                               !.read = Ids(df_joined)]
      IN
      /\ h.ok
      /\ Store(d)
      /\ session' = [session EXCEPT ![s] = h.ss]
      /\ UNCHANGED <<failed, created, touched>>
      /\ IF df_joined = {}
         THEN last' = [run EXCEPT !.msg = "No orders or shipments yet."]
         ELSE /\ status_filter \in StatusFilterOptions(df_joined)
              /\ user_filter \in UserFilterOptions(h.ss)
              /\ last' = [run EXCEPT
                            !.status_filter = status_filter,
                            !.user_filter = user_filter,
                            !.shown = Ids(FilterOrders(df_joined, h.ss, status_filter,
                                                       user_filter))]

\* page "User Profile"
UserProfile(s) ==
    \E d \in init_db(DB) :
      LET h == Enter(s, d)
          df_user_shipments == get_user_shipments_df(d, Get(h.ss, "user_id", NoneId))
      IN
      /\ h.ok
      /\ Store(d)
      /\ session' = [session EXCEPT ![s] = h.ss]
      /\ last' = [NoRun EXCEPT !.s = s, !.page = "profile", !.repo = {"list"},
                     !.msg = IF df_user_shipments = {}
                             THEN "No shipments associated with your account yet."
                             ELSE "Your Shipments",
                     !.read = Ids(df_user_shipments),
                     !.shown = Ids(df_user_shipments)]
      /\ UNCHANGED <<failed, created, touched>>

\* the Add Shipment form as filled in
Filled(initial_status) ==
    [sender_name |-> "Ann", receiver_name |-> "Ben", origin |-> "Oslo",
     destination |-> "Rome", status |-> initial_status, items |-> "Lamp",
     quantity |-> 1, total_cost |-> 0]

FormInputs ==
    {Filled("Pending"), Filled("Delivered"), [Filled("Pending") EXCEPT !.origin = ""]}

StatusFilterInputs == {"All", "Pending"}

UserFilterInputs == {"All", "Admin", "User ", "admin", "user"}

Next ==
    \E s \in Sessions :
      \/ \E u \in UsernameInputs, p \in PasswordInputs, b \in BOOLEAN :
            LoginPage(s, u, p, b) /\ UNCHANGED stmtvars
      \/ LogoutButton(s) /\ UNCHANGED stmtvars
      \/ Dashboard(s) /\ UNCHANGED stmtvars
      \/ \E f \in FormInputs, b \in BOOLEAN : AddShipment(s, f, b) /\ UNCHANGED stmtvars
      \/ \E t \in TrackingInputs, b \in BOOLEAN, st \in Status :
            TrackShipment(s, t, b, st) /\ UNCHANGED stmtvars
      \/ \E sf \in StatusFilterInputs, uf \in UserFilterInputs :
            ViewOrders(s, sf, uf) /\ UNCHANGED stmtvars
      \/ UserProfile(s) /\ UNCHANGED stmtvars

Spec == Init /\ [][Next]_vars

----------------------------------------------------------------------------
(* Add Shipment statement by statement, over the one cached connection.     *)
(* get_conn() is @st.cache_resource: the script thread of every session     *)
(* gets the same sqlite3 connection.  Its transaction is opened by the      *)
(* first INSERT after a commit or rollback and holds the statements of      *)
(* every thread until the next conn.commit() or conn.rollback().            *)

\* what a statement on the cached connection reads: the committed rows and the
\* rows of the connection's open transaction
ConnView == [DB EXCEPT !.shipments = @ \cup conn.ships, !.orders = @ \cup conn.ords]

\* INSERT INTO shipments (user_id, sender_name, ..., tracking_id, created_date)
ShipmentRow(d, user_id, f, tid) ==
    [id |-> NextId(d.shipments), user_id |-> user_id,
     sender_name |-> f.sender_name, receiver_name |-> f.receiver_name,
     origin |-> f.origin, destination |-> f.destination,
     status |-> f.status, tracking_id |-> tid]

\* INSERT INTO orders (shipment_id, items, quantity, total_cost)
OrderRow(d, shipment_id, f) ==
    [id |-> NextId(d.orders), shipment_id |-> shipment_id,
     items |-> f.items, quantity |-> f.quantity, total_cost |-> f.total_cost]

\* mutant: the except block without conn.rollback()
NoRollback(c) == c

\* conn.rollback(): the open transaction is dropped, whoever wrote into it
Rollback(c) == [c EXCEPT !.ships = {}, !.ords = {}]

\* the account each session of the statement-level runs is logged in with
AccountOf(p) == IF p = 1 THEN "admin" ELSE "user"

SenderNames == <<"Ann", "Cat", "Eve", "Gus">>
ItemNames == <<"Lamp", "Desk", "Vase", "Sofa">>

\* the form as session p fills it in: every session ships its own goods
FormOf(p) ==
    [Filled("Pending") EXCEPT
       !.sender_name = SenderNames[((p - 1) % Len(SenderNames)) + 1],
       !.items = ItemNames[((p - 1) % Len(ItemNames)) + 1]]

AddFormInputs(p) == {FormOf(p), [FormOf(p) EXCEPT !.origin = ""]}

\* the store after the first script run: default users and the eight samples
SeededStore ==
    CHOOSE d \in init_db([users |-> {}, shipments |-> {}, orders |-> {},
                          collisions |-> 0]) : d.collisions = 0

\* st.session_state of a session that has logged in with a default account
LoggedInSession(d, name) ==
    handle_login(SessionInit(NoKeys), d.users, name, name, TRUE).ss

\* a seeded store and every session logged in, no run under way
InitAdd ==
    /\ users = SeededStore.users
    /\ shipments = SeededStore.shipments
    /\ orders = SeededStore.orders
    /\ collisions = 0
    /\ session = [p \in Procs |-> LoggedInSession(SeededStore, AccountOf(p))]
    /\ failed = [p \in Procs |-> 0]
    /\ created = {}
    /\ touched = {}
    /\ last = NoRun
    /\ Quiescent

\* a run of page "Add Shipment" up to the try block: init_db(), the gate, the
\* form (its widgets keep their values from the last submission), the flag
AddRunStart(p, f, submitted) ==
    /\ pc[p] = "idle"
    /\ rerun[p] => ~submitted
    /\ \E d \in init_db(DB) :
         LET h == Enter(p, d)
             form == IF submitted THEN f ELSE widgets[p]
             taken == FormTaken(h.ss, submitted)
             ss1 == IF taken THEN SetKey(h.ss, "form_submitted", TRUE) ELSE h.ss
             run == [NoRun EXCEPT !.s = p, !.page = "add", !.submit = submitted]
         IN
         /\ h.ok
         /\ Store(d)
         /\ session' = [session EXCEPT ![p] = ss1]
         /\ widgets' = [widgets EXCEPT ![p] = form]
         /\ rerun' = [rerun EXCEPT ![p] = FALSE]
         /\ UNCHANGED <<failed, created, touched, conn>>
         /\ IF taken /\ AllFilled(form)
            THEN /\ tally.ops < MaxOps
                 /\ pc' = [pc EXCEPT ![p] = "insert_shipment"]
                 /\ loc' = [loc EXCEPT ![p] = [NoLocals EXCEPT !.f = form,
                                                               !.submitted = submitted]]
                 /\ tally' = [tally EXCEPT !.ops = @ + 1,
                                           !.submissions = @ + (IF submitted THEN 1 ELSE 0)]
                 /\ last' = run
            ELSE /\ last' = [run EXCEPT !.msg =
                               IF taken THEN "Please fill in all required fields." ELSE ""]
                 /\ UNCHANGED <<pc, loc, tally>>

\* tracking_id = uuid4()...; c.execute("INSERT INTO shipments ...")
AddInsertShipment(p) ==
    /\ pc[p] = "insert_shipment"
    /\ UNCHANGED <<users, shipments, orders, session, failed, created, touched, last,
                   widgets, rerun>>
    /\ \/ \E tracking_id \in uuid_draws(ConnView) :
            IF UniqueViolation(ConnView.shipments, tracking_id)
            THEN \* sqlite3.IntegrityError
                 /\ collisions' = collisions + 1
                 /\ loc' = [loc EXCEPT ![p].tracking_id = tracking_id,
                                       ![p].failed_at = "unique"]
                 /\ pc' = [pc EXCEPT ![p] = "except"]
                 /\ UNCHANGED <<conn, tally>>
            ELSE LET row == ShipmentRow(ConnView, Get(session[p], "user_id", NoneId),
                                        loc[p].f, tracking_id) IN
                 /\ conn' = [conn EXCEPT !.ships = @ \cup {row}, !.rowid = row.id]
                 /\ loc' = [loc EXCEPT ![p].tracking_id = tracking_id]
                 /\ pc' = [pc EXCEPT ![p] = "lastrowid"]
                 /\ UNCHANGED <<collisions, tally>>
       \/ \* the statement raises a storage error (sqlite3.OperationalError)
          /\ tally.faults < MaxFaults
          /\ tally' = [tally EXCEPT !.faults = @ + 1]
          /\ loc' = [loc EXCEPT ![p].failed_at = "shipment"]
          /\ pc' = [pc EXCEPT ![p] = "except"]
          /\ UNCHANGED <<conn, collisions>>

\* shipment_id = c.lastrowid: the cursor takes sqlite3_last_insert_rowid() of
\* the connection when it gets to run again after its INSERT
AddLastRowId(p) ==
    /\ pc[p] = "lastrowid"
    /\ loc' = [loc EXCEPT ![p].shipment_id = conn.rowid]
    /\ pc' = [pc EXCEPT ![p] = "insert_order"]
    /\ UNCHANGED <<users, shipments, orders, session, collisions, failed, created,
                   touched, last, conn, widgets, rerun, tally>>

\* c.execute("INSERT INTO orders ...")
AddInsertOrder(p) ==
    /\ pc[p] = "insert_order"
    /\ UNCHANGED <<users, shipments, orders, session, collisions, failed, created,
                   touched, last, widgets, rerun>>
    /\ \/ LET row == OrderRow(ConnView, loc[p].shipment_id, loc[p].f) IN
          /\ conn' = [conn EXCEPT !.ords = @ \cup {row}, !.rowid = row.id]
          /\ pc' = [pc EXCEPT ![p] = "commit"]
          /\ UNCHANGED <<loc, tally>>
       \/ \* the statement raises a storage error (sqlite3.OperationalError)
          /\ tally.faults < MaxFaults
          /\ tally' = [tally EXCEPT !.faults = @ + 1]
          /\ loc' = [loc EXCEPT ![p].failed_at = "order"]
          /\ pc' = [pc EXCEPT ![p] = "except"]
          /\ UNCHANGED conn

\* conn.commit(); st.success(...); st.balloons(); st.rerun(): the rerun ends the
\* run, the flag reset on the line after it is never executed
AddCommit(p) ==
    /\ pc[p] = "commit"
    /\ shipments' = shipments \cup conn.ships
    /\ orders' = orders \cup conn.ords
    /\ conn' = [conn EXCEPT !.ships = {}, !.ords = {}]
    /\ tally' = [tally EXCEPT !.nsucc = @ + 1]
    /\ rerun' = [rerun EXCEPT ![p] = TRUE]
    /\ pc' = [pc EXCEPT ![p] = "idle"]
    /\ last' = [NoRun EXCEPT !.s = p, !.page = "add", !.submit = loc[p].submitted,
                             !.msg = "Shipment added successfully",
                             !.tid = loc[p].tracking_id, !.repo = {"insert"}]
    /\ UNCHANGED <<users, session, collisions, failed, created, touched, loc, widgets>>

\* except Exception as e: st.error(...); conn.rollback()
AddExcept(p) ==
    /\ pc[p] = "except"
    /\ conn' = Rollback(conn)
    /\ tally' = [tally EXCEPT !.nerr = @ + 1]
    /\ pc' = [pc EXCEPT ![p] = "idle"]
    /\ last' = [NoRun EXCEPT !.s = p, !.page = "add", !.submit = loc[p].submitted,
                             !.msg = "Error adding shipment",
                             !.tid = loc[p].tracking_id, !.repo = {"insert"},
                             !.collided = (loc[p].failed_at = "unique")]
    /\ UNCHANGED <<users, shipments, orders, session, collisions, failed, created,
                   touched, loc, widgets, rerun>>

\* a run of another page: the form is not drawn, its widgets lose their values
AddPageLeft(p) ==
    /\ pc[p] = "idle"
    /\ ~rerun[p]
    /\ widgets[p] # EmptyForm
    /\ widgets' = [widgets EXCEPT ![p] = EmptyForm]
    /\ UNCHANGED <<users, shipments, orders, session, collisions, failed, created,
                   touched, last, conn, pc, loc, rerun, tally>>

AddStep(p) ==
    \/ \E f \in AddFormInputs(p), b \in BOOLEAN : AddRunStart(p, f, b)
    \/ AddInsertShipment(p)
    \/ AddLastRowId(p)
    \/ AddInsertOrder(p)
    \/ AddCommit(p)
    \/ AddExcept(p)
    \/ AddPageLeft(p)

\* one session alone on the connection
NextAddOne == AddStep(1)

SpecAddOne == InitAdd /\ [][NextAddOne]_vars

\* every session's thread on the same connection
NextAddShared == \E p \in Procs : AddStep(p)

SpecAddShared == InitAdd /\ [][NextAddShared]_vars

----------------------------------------------------------------------------
(* Helpers of the claims *)

LoggedIn(ss) == Get(ss, "logged_in", FALSE)
IsAdmin(ss) == Get(ss, "is_admin", FALSE)
RowOf(id) == CHOOSE r \in shipments : r.id = id
OwnedBy(user_id) == {r.id : r \in {x \in shipments : x.user_id = user_id}}
PageRun == last.page \in {"dashboard", "add", "track", "orders", "profile"}

\* C1: no two distinct shipment rows carry the same tracking_id, whatever seed
\* insertions and Add Shipment creations (colliding ones included) have run.
C1_UniqueTrackingId ==
    \A r1 \in shipments, r2 \in shipments :
        r1.tracking_id = r2.tracking_id => r1 = r2

\* a creation drew a stored tracking id, and the store holds shipments
C1_Witness ==
    /\ last.page = "add"
    /\ last.collided
    /\ \E r \in shipments : r.tracking_id = last.tid

\* C2: round trip. Every shipment created through Add Shipment is found by the
\* tracking id reported to its creator, as exactly one row, whose sender, receiver,
\* origin, destination and owner are the supplied ones, and whose status is the
\* supplied one as long as no status update was applied to it.
C2_RoundTrip ==
    \A c \in created :
        LET found == FindByTrackingId(shipments, c.tracking_id) IN
        /\ Cardinality(found) = 1
        /\ \A r \in found :
             /\ r.sender_name = c.form.sender_name
             /\ r.receiver_name = c.form.receiver_name
             /\ r.origin = c.form.origin
             /\ r.destination = c.form.destination
             /\ r.user_id = c.user_id
             /\ c.user_id \in {u.id : u \in users}
             /\ (c.tracking_id \notin touched => r.status = c.form.status)

\* the Track page looked a created shipment up by its reported tracking id
C2_Witness ==
    \E c \in created :
        /\ last.page = "track"
        /\ last.tid = c.tracking_id
        /\ last.shown # {}

\* what one step may do with a submitted login form
C3_step ==
    (last'.page = "login" /\ last'.submit)
    => LET ss == session'[last'.s]
           account == {u \in users' : u.username = last'.username
                                       /\ u.password = hash_password(last'.password)}
           anonymous == /\ ~LoggedIn(ss)
                        /\ ss["user_id"] = NoneId
                        /\ ss["username"] = NoneName
                        /\ ~ss["is_admin"]
       IN IF last'.username = "" \/ last'.password = ""
          THEN last'.msg = "Enter username and password." /\ anonymous
          ELSE IF account # {}
          THEN /\ last'.msg = "Welcome"
               /\ LoggedIn(ss)
               /\ \A u \in account :
                    /\ ss["user_id"] = u.id
                    /\ ss["username"] = u.username
                    /\ ss["is_admin"] = (u.username = "admin")
          ELSE last'.msg = "Invalid credentials." /\ anonymous

\* C3: a submitted login whose username/password pair matches a stored account
\* authenticates the session with that account's id, username and role; a pair
\* with a wrong password or an unknown username is answered "Invalid credentials."
\* and leaves the session anonymous (a submission with an empty field is asked to
\* enter both, and leaves it anonymous too); this holds in every step, whatever
\* number of failed attempts came before.
C3_Login == [][C3_step]_vars

\* a correct pair was accepted after MaxFailures failed submissions
C3_Witness ==
    /\ last.page = "login"
    /\ last.msg = "Welcome"
    /\ failed[last.s] = MaxFailures
    /\ LoggedIn(session[last.s])

\* what one step may do with the sessions' login state
C4_step ==
    \A s \in Sessions :
        /\ (~LoggedIn(session[s]) /\ LoggedIn(session'[s]))
              => (last'.page = "login" /\ last'.s = s /\ last'.msg = "Welcome")
        /\ (LoggedIn(session[s]) /\ ~LoggedIn(session'[s]))
              => (last'.page = "logout" /\ last'.s = s)
        /\ (last'.page = "logout" /\ last'.s = s) => DOMAIN session'[s] = {}
        /\ ~LoggedIn(session'[s])
              => /\ Get(session'[s], "username", NoneName) = NoneName
                 /\ Get(session'[s], "user_id", NoneId) = NoneId
                 /\ ~Get(session'[s], "is_admin", FALSE)
        /\ LoggedIn(session'[s])
              => /\ Get(session'[s], "username", NoneName) # NoneName
                 /\ Get(session'[s], "user_id", NoneId) # NoneId
        /\ (~LoggedIn(session[s]) /\ last'.s = s) => last'.page = "login"

\* C4: a session is anonymous or authenticated; it becomes authenticated only by a
\* successful login and anonymous again only by logout; logout leaves no key of the
\* session state, an anonymous session carries no identity, and its next run is
\* the login form.
C4_SessionLifecycle == [][C4_step]_vars

\* a session that had logged in has logged out: no key is left
C4_Witness ==
    /\ last.page = "logout"
    /\ DOMAIN session[last.s] = {}
    /\ shipments # {}

\* a step that executes repository operations was entered logged in
C5_step == (last'.repo # {}) => LoggedIn(session[last'.s])

\* C5: a run that inserts, updates, looks up or lists shipments or orders for a
\* session is a run that session entered logged in; a run of an anonymous session
\* executes none of these.
C5_GatedByLogin == [][C5_step]_vars

\* an anonymous session ran the script after shipments were created, and nothing
\* of the repository was executed for it
C5_Witness ==
    /\ last.page = "login"
    /\ last.submit
    /\ ~LoggedIn(session[last.s])
    /\ last.repo = {}
    /\ created # {}

\* a step that changes a status is an admin's Track page run
C6_step ==
    (\E r \in shipments, q \in shipments' : r.id = q.id /\ r.status # q.status)
    => /\ last'.page = "track"
       /\ IsAdmin(session[last'.s])
       /\ Get(session[last'.s], "username", NoneName) = "admin"

\* C6: a step changes the status of a shipment only if it is a Track page run of a
\* session whose is_admin is set, which is a session logged in as admin; a run of
\* any other session leaves every status as it was.
C6_StatusByAdminOnly == [][C6_step]_vars

\* a non-admin session asked the Track page for another status of a shipment it
\* found; the status is as it was
C6_Witness ==
    /\ last.page = "track"
    /\ last.submit
    /\ LoggedIn(session[last.s])
    /\ ~IsAdmin(session[last.s])
    /\ \E id \in last.shown : RowOf(id).status # last.new_status

\* C7 as stated: whatever a non-admin session is shown or handed by the tracking-id
\* lookup, the order listing, the dashboard or the profile view is a shipment it owns.
C7_OwnShipmentsOnly ==
    (PageRun /\ LoggedIn(session[last.s]) /\ ~IsAdmin(session[last.s]))
    => (last.shown \cup last.read) \subseteq OwnedBy(session[last.s]["user_id"])

\* C7 as amended: only the profile view and the order listing filtered by the
\* session's own username are restricted to the session's shipments; the tracking-id
\* lookup shows the shipment of that id whoever owns it, and the dashboard and the
\* unfiltered order listing cover every shipment, for admin and non-admin alike.
C7_ReadScope ==
    (PageRun /\ LoggedIn(session[last.s]))
    => LET ss == session[last.s]
           own == OwnedBy(ss["user_id"])
           all == {r.id : r \in shipments}
       IN /\ last.page = "profile" => (last.shown = own /\ last.read = own)
          /\ (last.page = "orders" /\ ~IsAdmin(ss) /\ last.user_filter \notin {"", "All"})
                => /\ last.shown \subseteq own
                   /\ last.status_filter = "All" => last.shown = own
          /\ (last.page = "orders" /\ last.user_filter = "All"
                /\ last.status_filter = "All")
                => last.shown = all
          /\ last.page = "track"
                => last.shown = {r.id : r \in {x \in shipments :
                                                 x.tracking_id = last.tid}}
          /\ last.page = "dashboard"
                => (last.read = all /\ last.total = Cardinality(shipments))

\* a non-admin session was shown, by tracking id, a shipment of another account
C7_Witness ==
    /\ last.page = "track"
    /\ LoggedIn(session[last.s])
    /\ ~IsAdmin(session[last.s])
    /\ \E id \in last.shown : RowOf(id).user_id # session[last.s]["user_id"]

\* C8: for every stored tracking id T and every status s, the status update (T, s)
\* applied twice leaves the table that one application leaves: T's row has status
\* s, every other row and every other column is as before; also when s is the
\* current status.
C8_UpdateIdempotent ==
    \A r \in shipments, s \in Status :
        LET T == r.tracking_id
            once == update_status(shipments, T, s)
            twice == update_status(once, T, s)
        IN /\ twice = once
           /\ once = {IF p.tracking_id = T THEN [p EXCEPT !.status = s] ELSE p :
                        p \in shipments}
           /\ Cardinality(once) = Cardinality(shipments)

\* an admin pressed Update Status for a status the shipment had been given by an
\* earlier update: the second application changed nothing
C8_Witness ==
    /\ last.page = "track"
    /\ last.submit
    /\ last.tid \in touched
    /\ last.msg # "Status updated"
    /\ \E id \in last.shown : RowOf(id).status = last.new_status

\* C9: init_db run on the store init_db has left changes nothing (users, shipments
\* and orders are the same rows, so the same counts), also when shipments were
\* created since; it never changes the id or the password of an existing account.
C9_SeedIdempotent ==
    \A d1 \in init_db(DB) :
        /\ init_db(d1) = {d1}
        /\ users \subseteq d1.users
        /\ users # {} => d1 = DB

\* init_db ran again after a shipment had been created through Add Shipment
C9_Witness ==
    /\ last.page = "dashboard"
    /\ created # {}
    /\ Cardinality(shipments) > Len(sample_data) - MaxCollisions

\* C10 as stated: an Add Shipment creation whose generated tracking id collided
\* with a stored one still succeeds (the id is regenerated and the row re-inserted).
C10_RetryOnCollision ==
    (last.page = "add" /\ last.collided) => last.msg = "Shipment added successfully"

----------------------------------------------------------------------------
(* init_db() statement by statement, run by several script runs at once.    *)
(* Every run opens its own connection (sqlite3.connect in init_db), so each *)
(* transaction is a run's own: SQLite lets one connection write at a time   *)
(* and shows the others a transaction's rows when it commits.               *)

\* CREATE TABLE IF NOT EXISTS ...; commit; BEGIN; INSERT OR IGNORE INTO users; commit
InitDbUsers(p) ==
    /\ pc[p] = "idle"
    /\ users' = InsertDefaultUsers(users, 1)
    /\ pc' = [pc EXCEPT ![p] = "init_count"]
    /\ UNCHANGED <<shipments, orders, session, collisions, failed, created, touched,
                   last, conn, loc, widgets, rerun, tally>>

\* SELECT id FROM users ...; SELECT COUNT(*) FROM shipments: read in autocommit
\* mode, before the BEGIN of the samples
InitDbCount(p) ==
    /\ pc[p] = "init_count"
    /\ IF UserIdOf(users, "admin") = NoneId \/ UserIdOf(users, "user") = NoneId
       THEN /\ pc' = [pc EXCEPT ![p] = "idle"]
            /\ UNCHANGED loc
       ELSE /\ pc' = [pc EXCEPT ![p] = "init_seed"]
            /\ loc' = [loc EXCEPT ![p].shipment_count = Cardinality(shipments)]
    /\ UNCHANGED <<users, shipments, orders, session, collisions, failed, created,
                   touched, last, conn, widgets, rerun, tally>>

\* if shipment_count == 0: BEGIN; the sample loop; commit
InitDbSeed(p) ==
    /\ pc[p] = "init_seed"
    /\ IF loc[p].shipment_count = 0
       THEN \E d \in SeedSamples(DB, 1) : Store(d)
       ELSE UNCHANGED <<users, shipments, orders, collisions>>
    /\ pc' = [pc EXCEPT ![p] = "idle"]
    /\ UNCHANGED <<session, failed, created, touched, last, conn, loc, widgets, rerun,
                   tally>>

NextInitDb ==
    \E p \in Procs :
      \/ InitDbUsers(p)
      \/ InitDbCount(p)
      \/ InitDbSeed(p)

\* script runs of several sessions starting on an empty logistics.db
SpecInitDb == Init /\ [][NextInitDb]_vars

----------------------------------------------------------------------------
(* Claims about the statement-level runs *)

\* the runs that are between their first INSERT and their commit or rollback
InFlight == {p \in Procs : pc[p] # "idle"}

\* C11: creating a shipment with its order is all-or-nothing within one
\* session.  With one session on the connection, at every moment each
\* committed shipment has exactly one committed order and each committed
\* order references a committed shipment; every operation that ended was
\* reported as a success or as an error; the committed store holds the
\* samples plus exactly one shipment and one order per reported success (an
\* operation that ended in an error left it as it was); and once the
\* operation has ended nothing of it is left in the connection's transaction.
C11_AllOrNothing ==
    /\ \A r \in shipments : Cardinality({o \in orders : o.shipment_id = r.id}) = 1
    /\ \A o \in orders : \E r \in shipments : r.id = o.shipment_id
    /\ tally.ops = tally.nsucc + tally.nerr + Cardinality(InFlight)
    /\ Cardinality(shipments) = Len(sample_data) + tally.nsucc
    /\ Cardinality(orders) = Len(sample_data) + tally.nsucc
    /\ InFlight = {} => conn.ships = {} /\ conn.ords = {}
    /\ (InFlight = {} /\ last.msg = "Shipment added successfully") =>
          \E r \in shipments, o \in orders :
             /\ r.tracking_id = last.tid
             /\ o.shipment_id = r.id
             /\ r.sender_name = loc[last.s].f.sender_name
             /\ o.items = loc[last.s].f.items

\* one operation committed its pair and a later one failed at the order insert,
\* after its shipment insert had gone through
C11_Witness ==
    /\ InFlight = {}
    /\ tally.nsucc = 1
    /\ tally.nerr = 1
    /\ last.msg = "Error adding shipment"
    /\ loc[1].failed_at = "order"
    /\ loc[1].shipment_id # NoneId

\* the sender and the goods that belong together: of sample i, and of each
\* session's form
SamplePairs ==
    {<<sample_data[i].sender_name,
       sample_orders[((i - 1) % Len(sample_orders)) + 1].items>> : i \in 1..Len(sample_data)}

FormPairs == {<<FormOf(p).sender_name, FormOf(p).items>> : p \in Procs}

\* C12: under any interleaving of Add Shipment operations of several sessions
\* on the one cached connection, every committed order references an existing
\* committed shipment, and that shipment is the one its own operation created
\* (its sender belongs to the order's goods); no shipment is committed
\* without its order; and an operation that reported success has its pair in
\* the committed store.
C12_PairsSurviveInterleaving ==
    /\ \A o \in orders :
         \E r \in shipments :
            /\ r.id = o.shipment_id
            /\ <<r.sender_name, o.items>> \in SamplePairs \cup FormPairs
    /\ \A r \in shipments : \E o \in orders : o.shipment_id = r.id
    /\ last.msg = "Shipment added successfully" =>
         \E r \in shipments, o \in orders :
            /\ o.shipment_id = r.id
            /\ r.sender_name = FormOf(last.s).sender_name
            /\ o.items = FormOf(last.s).items

\* C14: one submission of the Add Shipment form with all required fields
\* filled adds exactly one shipment and one order.  The form_submitted flag
\* left by the submitting run lets neither the rerun after the successful
\* insert nor a later run without a submission insert again: the successful
\* inserts, and the shipments and orders added to the samples, never
\* outnumber the submissions that had all fields filled.
C14_OneInsertPerSubmission ==
    /\ tally.nsucc <= tally.submissions
    /\ Cardinality(shipments) <= Len(sample_data) + tally.submissions
    /\ Cardinality(orders) <= Len(sample_orders) + tally.submissions

\* C13: the demo shipments and orders are inserted exactly once even when
\* init_db is run by several script runs at once on an empty store: under
\* every interleaving of their row-count checks and sample inserts the store
\* never holds more than one copy of the samples (at most the 8 sample
\* shipments and 8 sample orders, no sample sender twice).
C13_SamplesInsertedOnce ==
    /\ Cardinality(shipments) <= Len(sample_data)
    /\ Cardinality(orders) <= Len(sample_data)
    /\ \A i \in 1..Len(sample_data) :
         Cardinality({r \in shipments : r.sender_name = sample_data[i].sender_name}) <= 1
====
